---- MODULE Spec2Model ----
(***************************************************************************)
(* Model of task1_image_metadata_analysis/code.py: the EXIF/GPS metadata   *)
(* extraction pipeline (main -> analyze_image -> extract_exif / try_ocr -> *)
(* write_report) and its coordinate conversion helpers.                    *)
(*                                                                         *)
(* Python values are records tagged by field t.  Floats are exact          *)
(* rationals n/d in lowest terms (d > 0); binary rounding is not modelled. *)
(* A call that raises yields the value Raised(exc).                        *)
(***************************************************************************)
EXTENDS Integers, Sequences, FiniteSets, TLC

VARIABLES
    pytesseract, \* module global: the OCR module, or None when its import failed
    detect,    \* module global: langdetect.detect, or None when its import failed
    pc,        \* position of main(): "main", "open", "extract", "ocr", "exit_with", "write", "crash", "exited"
    args,      \* the parsed command line: image, ocr, out
    disk,      \* what the image path holds: kind ("missing", "text", "image") and its tag mapping
    handle,    \* the image handle of analyze_image: "unopened", "open", "closed"
    info,      \* the dict analyze_image builds
    pending,   \* the exception propagating out of the with block, or None
    ocrEnv,    \* what the OCR engine and the language detector did in this run
    exitCode,  \* process exit status, -1 while running
    stderr,    \* lines written to standard error
    stdout,    \* TRUE once the JSON document has been printed
    outFile,   \* the file at the --out path: whether this run wrote it, and the lines written
    dpc,       \* position of a direct call of _dms_to_decimal: "call", "done" ("idle" when main runs)
    dms,       \* argument dms of _dms_to_decimal
    ref,       \* argument ref of _dms_to_decimal
    dec        \* what _dms_to_decimal returned (or raised)

vars == <<pytesseract, detect, pc, args, disk, handle, info, pending, ocrEnv, exitCode, stderr, stdout,
          outFile, dpc, dms, ref, dec>>

mainVars == <<pytesseract, detect, pc, args, disk, handle, info, pending, ocrEnv, exitCode, stderr, stdout, outFile>>
dmsVars == <<dpc, dms, ref, dec>>

-----------------------------------------------------------------------------
(* Bounds *)

MaxNum == 2      \* numerators and integers range over -1..MaxNum
MaxDen == 2      \* denominators range over 0..MaxDen
MaxLen == 4      \* dms sequences have 0..MaxLen elements

-----------------------------------------------------------------------------
(* Python values *)

None == [t |-> "None"]
PyInt(v) == [t |-> "int", v |-> v]
PyStr(s) == [t |-> "str", s |-> s]
PyTuple(items) == [t |-> "tuple", items |-> items]
PyDict(m) == [t |-> "dict", m |-> m]
\* an object with numerator/denominator attributes that is not an int
Rational(n, d) == [t |-> "rational", num |-> n, den |-> d]
Raised(exc) == [t |-> "raise", exc |-> exc]
\* r is a raised exception, not a returned value (dicts returned carry no t)
IsRaised(r) == "t" \in DOMAIN r /\ r.t = "raise"

Abs(x) == IF x < 0 THEN -x ELSE x

RECURSIVE GCD(_, _)
GCD(a, b) == IF b = 0 THEN a ELSE GCD(b, a % b)

\* the float n/d, d # 0
PyFloat(n, d) ==
    LET g == GCD(Abs(n), Abs(d))
        s == IF d < 0 THEN -1 ELSE 1
    IN  [t |-> "float", n |-> (s * n) \div g, d |-> (s * d) \div g]

FAdd(a, b) == PyFloat(a.n * b.d + b.n * a.d, a.d * b.d)
FNeg(a) == PyFloat(-a.n, a.d)
\* a / b on floats: ZeroDivisionError when b is 0.0
FDiv(a, b) == IF b.n = 0 THEN Raised("ZeroDivisionError")
              ELSE PyFloat(a.n * b.d, a.d * b.n)

\* Python truth value
Truthy(x) ==
    CASE x.t = "None"     -> FALSE
      [] x.t = "int"      -> x.v # 0
      [] x.t = "float"    -> x.n # 0
      [] x.t = "str"      -> x.s # ""
      [] x.t = "tuple"    -> Len(x.items) > 0
      [] x.t = "dict"     -> DOMAIN x.m # {}
      [] x.t = "rational" -> x.num # 0
      [] OTHER            -> TRUE

\* float() of the strings the model uses: the decimal ones parse, the rest
\* raise ValueError
StrFloat(s) ==
    CASE s = "0" -> PyFloat(0, 1)
      [] s = "7" -> PyFloat(7, 1)
      [] s = "1.5" -> PyFloat(3, 2)
      [] OTHER -> Raised("ValueError")

\* the builtin float(x)
Float(x) ==
    CASE x.t = "int"   -> PyFloat(x.v, 1)
      [] x.t = "float" -> x
      [] x.t = "str"   -> StrFloat(x.s)
      [] x.t = "rational" -> IF x.den = 0 THEN Raised("ZeroDivisionError")
                             ELSE PyFloat(x.num, x.den)
      [] OTHER         -> Raised("TypeError")

\* hasattr(x, "numerator") and hasattr(x, "denominator"): ints and rationals
HasNumDen(x) == x.t \in {"int", "rational"}
Numerator(x) == IF x.t = "int" THEN x.v ELSE x.num
Denominator(x) == IF x.t = "int" THEN 1 ELSE x.den

\* x or 0.0
OrZero(x) == IF Truthy(x) THEN x ELSE PyFloat(0, 1)

-----------------------------------------------------------------------------
(* Coordinate conversion *)

\* float(num) / float(den), either conversion raising first
DivFloats(fn, fd) ==
    IF fn.t = "raise" THEN fn
    ELSE IF fd.t = "raise" THEN fd
    ELSE FDiv(fn, fd)

\* try: ... except Exception: return None
NoneIfRaised(r) == IF r.t = "raise" THEN None ELSE r

\* _rational_to_float with the zero-denominator guard of the tuple branch
\* falling back to the numerator instead of 0.0
rational_to_float_keeps_numerator(x) ==
    NoneIfRaised(
        IF HasNumDen(x)
        THEN IF Denominator(x) = 0 THEN PyFloat(Numerator(x), 1)
             ELSE FDiv(PyFloat(Numerator(x), 1), PyFloat(Denominator(x), 1))
        ELSE IF x.t = "tuple" /\ Len(x.items) = 2
        THEN IF Truthy(x.items[2])
             THEN DivFloats(Float(x.items[1]), Float(x.items[2]))
             ELSE Float(x.items[1])
        ELSE Float(x))

_rational_to_float(x) ==
    NoneIfRaised(
        IF HasNumDen(x)
        THEN FDiv(PyFloat(Numerator(x), 1), PyFloat(Denominator(x), 1))
        ELSE IF x.t = "tuple" /\ Len(x.items) = 2
        THEN IF Truthy(x.items[2])
             THEN DivFloats(Float(x.items[1]), Float(x.items[2]))
             ELSE PyFloat(0, 1)
        ELSE Float(x))

\* dec = d + (m / 60.0) + (s / 3600.0)
DmsSum(d, m, s) == FAdd(FAdd(d, FDiv(m, PyFloat(60, 1))), FDiv(s, PyFloat(3600, 1)))

\* if ref in ("S", "W"): dec = -dec
Signed(sum, refArg) == IF refArg \in {PyStr("S"), PyStr("W")} THEN FNeg(sum) ELSE sum
SignedSouthOnly(sum, refArg) == IF refArg = PyStr("S") THEN FNeg(sum) ELSE sum

\* _dms_to_decimal negating for "S" only
dms_to_decimal_south_only(dmsArg, refArg) ==
    IF ~Truthy(dmsArg) THEN None
    ELSE IF dmsArg.t # "tuple" THEN Raised("TypeError")   \* len() of a non-sequence
    ELSE IF Len(dmsArg.items) # 3 THEN None
    ELSE SignedSouthOnly(DmsSum(OrZero(_rational_to_float(dmsArg.items[1])),
                    OrZero(_rational_to_float(dmsArg.items[2])),
                    OrZero(_rational_to_float(dmsArg.items[3]))),
             refArg)

_dms_to_decimal(dmsArg, refArg) ==
    IF ~Truthy(dmsArg) THEN None
    ELSE IF dmsArg.t # "tuple" THEN Raised("TypeError")   \* len() of a non-sequence
    ELSE IF Len(dmsArg.items) # 3 THEN None
    ELSE Signed(DmsSum(OrZero(_rational_to_float(dmsArg.items[1])),
                    OrZero(_rational_to_float(dmsArg.items[2])),
                    OrZero(_rational_to_float(dmsArg.items[3]))),
             refArg)

-----------------------------------------------------------------------------
(* Inputs of the coordinate conversion *)

Nums == -1 .. MaxNum
Dens == 0 .. MaxDen

\* values met as one of degrees / minutes / seconds
Components ==
    {PyInt(v) : v \in Nums}
    \cup {PyTuple(<<PyInt(n), PyInt(d)>>) : n \in 0 .. MaxNum, d \in Dens}
    \cup {Rational(n, d) : n \in 1 .. MaxNum, d \in Dens}
    \cup {PyStr("1.5"), PyStr("abc"), None, PyTuple(<<PyInt(1), PyInt(2), PyInt(3)>>)}

Fillers == {PyInt(1), None}

\* sequences of every length 0..MaxLen; the full component range at length 3
DmsSequences ==
    {PyTuple(<<a, b, c>>) : a \in Components, b \in Components, c \in Components}
    \cup UNION {{PyTuple(q) : q \in [1 .. n -> Fillers]} : n \in (0 .. MaxLen) \ {3}}

\* values that are no sequence at all
NonSequences == {PyInt(0), PyInt(5), Rational(3, 1)}

Refs == {PyStr("N"), PyStr("S"), PyStr("E"), PyStr("W"), PyStr(""), None}

-----------------------------------------------------------------------------
(* The pipeline at rest, for the specification that exercises the helpers *)

EmptyDict == [k \in {} |-> None]

MainIdle ==
    /\ pytesseract = None
    /\ detect = None
    /\ pc = "idle"
    /\ args = EmptyDict
    /\ disk = EmptyDict
    /\ handle = "unopened"
    /\ info = EmptyDict
    /\ pending = None
    /\ ocrEnv = None
    /\ exitCode = -1
    /\ stderr = <<>>
    /\ stdout = FALSE
    /\ outFile = [written |-> FALSE, lines |-> <<>>]

InitDms ==
    /\ MainIdle
    /\ dpc = "call"
    /\ dms \in DmsSequences \cup NonSequences \cup {None}
    /\ ref \in Refs
    /\ dec = None

CallDms ==
    /\ dpc = "call"
    /\ dec' = _dms_to_decimal(dms, ref)
    /\ dpc' = "done"
    /\ UNCHANGED <<dms, ref>>
    /\ UNCHANGED mainVars

NextDms == CallDms

SpecDms == InitDms /\ [][NextDms]_vars

-----------------------------------------------------------------------------
(* Properties of the coordinate conversion *)

\* c denotes a number: an integer, a decimal string, or a numerator /
\* denominator pair (tuple or rational object) with a non-zero denominator
Denotes(c) ==
    \/ c.t = "int"
    \/ c.t = "rational" /\ c.den # 0
    \/ c.t = "tuple" /\ Len(c.items) = 2 /\ c.items[2].v # 0
    \/ c.t = "str" /\ c.s = "1.5"

\* the number c denotes, as <<numerator, denominator>>; 0 when it denotes none
Value(c) ==
    IF ~Denotes(c) THEN <<0, 1>>
    ELSE CASE c.t = "int"      -> <<c.v, 1>>
           [] c.t = "rational" -> <<c.num, c.den>>
           [] c.t = "tuple"    -> <<c.items[1].v, c.items[2].v>>
           [] OTHER            -> <<3, 2>>

IsTriple(x) == x.t = "tuple" /\ Len(x.items) = 3

\* r is the float d + m/60 + s/3600 times sign, by cross-multiplication
IsDmsSum(r, x, sign) ==
    LET d == Value(x.items[1])
        m == Value(x.items[2])
        s == Value(x.items[3])
    IN  /\ r.t = "float"
        /\ r.n * (3600 * d[2] * m[2] * s[2])
             = sign * r.d * (3600 * d[1] * m[2] * s[2] + 60 * m[1] * d[2] * s[2]
                             + s[1] * d[2] * m[2])

Hemispheres == {PyStr("N"), PyStr("S"), PyStr("E"), PyStr("W")}
SignOf(r) == IF r \in {PyStr("S"), PyStr("W")} THEN -1 ELSE 1

\* C1: for a 3-element input whose components all denote numbers and a
\* reference in {N, S, E, W}, _dms_to_decimal returns d + m/60 + s/3600,
\* negated for S and W and with its sign unchanged for N and E.
C1_DecimalOfValidDms ==
    (dpc = "done" /\ IsTriple(dms) /\ ref \in Hemispheres
       /\ \A i \in 1 .. 3 : Denotes(dms.items[i]))
    => IsDmsSum(dec, dms, SignOf(ref))

C1_Witness ==
    /\ dpc = "done"
    /\ dms = PyTuple(<<PyInt(2), PyTuple(<<PyInt(1), PyInt(2)>>), Rational(2, 1)>>)
    /\ ref = PyStr("W")
    /\ dec = PyFloat(-(2 * 3600 + 30 + 2), 3600)

\* C9: _dms_to_decimal returns None, without raising, for a missing, empty or
\* not-3-element sequence; in a 3-element sequence a component that fails
\* numeric conversion or has a zero denominator counts as zero.
C9_AbsentOrZeroNeverRaises ==
    /\ (dpc = "done" /\ (dms = None \/ (dms.t = "tuple" /\ Len(dms.items) # 3)))
         => dec = None
    /\ (dpc = "done" /\ IsTriple(dms) /\ \E i \in 1 .. 3 : ~Denotes(dms.items[i]))
         => IsDmsSum(dec, dms, SignOf(ref))

C9_Witness ==
    /\ dpc = "done"
    /\ dms = PyTuple(<<PyInt(1), Rational(2, 0), PyStr("abc")>>)
    /\ ref = PyStr("N")
    /\ dec = PyFloat(1, 1)

-----------------------------------------------------------------------------
(* Metadata extraction *)

\* the entries of PIL's ExifTags.TAGS and ExifTags.GPSTAGS the program reads
EXIF_TAGS ==
    271 :> "Make" @@ 272 :> "Model" @@ 306 :> "DateTime"
    @@ 36867 :> "DateTimeOriginal" @@ 34853 :> "GPSInfo"
GPS_TAGS ==
    1 :> "GPSLatitudeRef" @@ 2 :> "GPSLatitude"
    @@ 3 :> "GPSLongitudeRef" @@ 4 :> "GPSLongitude"

\* table.get(tag_id, str(tag_id))
TagName(table, tag_id) ==
    IF tag_id \in DOMAIN table THEN table[tag_id] ELSE ToString(tag_id)

\* {table.get(k, str(k)): v for k, v in raw.items()}
Named(table, raw) ==
    [name \in {TagName(table, k) : k \in DOMAIN raw} |->
        raw[CHOOSE k \in DOMAIN raw : TagName(table, k) = name]]

\* d.get(k)
Get(d, k) == IF k \in DOMAIN d THEN d[k] ELSE None

\* a or b
PyOr(a, b) == IF Truthy(a) THEN a ELSE b

\* str(v); for containers the text is TLC's rendering, not Python's repr
Str(v) ==
    CASE v.t = "str"  -> v
      [] v.t = "int"  -> PyStr(ToString(v.v))
      [] v.t = "None" -> PyStr("None")
      [] OTHER        -> PyStr(ToString(v))

\* Coordinate without the test of the reference letter
CoordinateIgnoringRef(raw, refv) ==
    IF Truthy(raw) THEN _dms_to_decimal(raw, refv) ELSE None

\* lat = _dms_to_decimal(lat_raw, lat_ref) if lat_raw and lat_ref, else None
Coordinate(raw, refv) ==
    IF Truthy(raw) /\ Truthy(refv) THEN _dms_to_decimal(raw, refv) ELSE None

\* the gps_parsed dict, unless a conversion raised
GpsParsed(gps_named, lat, lon) ==
    IF lat.t = "raise" THEN lat
    ELSE IF lon.t = "raise" THEN lon
    ELSE [raw |-> [k \in DOMAIN gps_named |-> Str(gps_named[k])],
          latitude_decimal |-> lat,
          longitude_decimal |-> lon]

\* the body of: if isinstance(gps_info, dict)
ParseGps(gps_named) ==
    GpsParsed(gps_named,
              Coordinate(Get(gps_named, "GPSLatitude"), Get(gps_named, "GPSLatitudeRef")),
              Coordinate(Get(gps_named, "GPSLongitude"), Get(gps_named, "GPSLongitudeRef")))

ExifResult(exif_named, gps_parsed) ==
    IF IsRaised(gps_parsed) THEN gps_parsed
    ELSE [exif |-> exif_named, gps |-> gps_parsed]

ExtractNamed(exif_named, gps_info) ==
    IF gps_info.t # "dict" THEN [exif |-> exif_named, gps |-> EmptyDict]
    ELSE ExifResult(exif_named, ParseGps(Named(GPS_TAGS, gps_info.m)))

ExifGps(exif_named) == ExtractNamed(exif_named, Get(exif_named, "GPSInfo"))

extract_exif(exif_raw) ==
    IF DOMAIN exif_raw = {} THEN [exif |-> EmptyDict, gps |-> EmptyDict]
    ELSE ExifGps(Named(EXIF_TAGS, exif_raw))

\* the "summary" entry analyze_image derives from extract_exif's result
\* SummaryOf with has_gps true as soon as one decimal is present
SummaryOfEitherDecimal(exif, gps) ==
    [camera_make |-> Get(exif, "Make"),
     camera_model |-> Get(exif, "Model"),
     datetime_original |-> PyOr(Get(exif, "DateTimeOriginal"), Get(exif, "DateTime")),
     has_gps |-> \/ Get(gps, "latitude_decimal") # None
                 \/ Get(gps, "longitude_decimal") # None]

SummaryOf(exif, gps) ==
    [camera_make |-> Get(exif, "Make"),
     camera_model |-> Get(exif, "Model"),
     datetime_original |-> PyOr(Get(exif, "DateTimeOriginal"), Get(exif, "DateTime")),
     has_gps |-> /\ Get(gps, "latitude_decimal") # None
                 /\ Get(gps, "longitude_decimal") # None]

Summary(exif_data) == SummaryOf(exif_data.exif, exif_data.gps)

-----------------------------------------------------------------------------
(* OCR *)

Module == [t |-> "module"]

\* text.strip() of the texts the OCR engine returns in the model
Strip(s) ==
    CASE s = " \n"     -> ""
      [] s = "hello\n" -> "hello"
      [] OTHER         -> s

\* try_ocr without the try/except around the engine calls
try_ocr_unguarded(env) ==
    IF pytesseract = None
    THEN [text |-> None, language |-> None,
          note |-> PyStr("pytesseract not installed; skip OCR.")]
    ELSE IF env.transpose = "interrupt" \/ (env.transpose = "ok" /\ env.ocr = "interrupt")
    THEN Raised("KeyboardInterrupt")
    ELSE IF env.transpose = "error" \/ env.ocr = "error"
    THEN Raised("TesseractNotFoundError")
    ELSE [text |-> IF Strip(env.raw) # "" THEN PyStr(Strip(env.raw)) ELSE None,
          language |-> IF Strip(env.raw) # "" /\ detect # None /\ env.det # "error"
                       THEN PyStr(env.det) ELSE None,
          note |-> IF Strip(env.raw) # "" /\ detect = None
                   THEN PyStr("langdetect not installed; language not detected.")
                   ELSE None]

\* env says what the collaborators do in this call: transpose and ocr are
\* "ok", "error" (an Exception with message msg) or "interrupt" (a
\* KeyboardInterrupt, which except Exception lets through); raw is the text
\* image_to_string returns; det is the detected language or "error"
try_ocr(env) ==
    LET result == [text |-> None, language |-> None, note |-> None]
    IN  IF pytesseract = None
        THEN [result EXCEPT !.note = PyStr("pytesseract not installed; skip OCR.")]
        ELSE IF env.transpose = "interrupt" \/ (env.transpose = "ok" /\ env.ocr = "interrupt")
        THEN Raised("KeyboardInterrupt")
        ELSE IF env.transpose = "error" \/ env.ocr = "error"
        THEN [result EXCEPT !.note = PyStr("OCR failed: " \o env.msg)]
        ELSE
        LET text == Strip(env.raw)
            r1 == [result EXCEPT !.text = IF text # "" THEN PyStr(text) ELSE None]
        IN  IF text # "" /\ detect # None
            THEN IF env.det = "error"
                 THEN [r1 EXCEPT !.language = None]
                 ELSE [r1 EXCEPT !.language = PyStr(env.det)]
            ELSE IF text # "" /\ detect = None
            THEN [r1 EXCEPT !.note = PyStr("langdetect not installed; language not detected.")]
            ELSE r1

-----------------------------------------------------------------------------
(* Report *)

\* json.dumps accepts v: objects with numerator/denominator attributes that
\* are not ints have no JSON encoding
RECURSIVE JsonOk(_)
JsonOk(v) ==
    CASE v.t = "rational" -> FALSE
      [] v.t = "tuple"    -> \A i \in 1 .. Len(v.items) : JsonOk(v.items[i])
      [] v.t = "dict"     -> \A k \in DOMAIN v.m : JsonOk(v.m[k])
      [] OTHER            -> TRUE

JsonSerializable(data) == \A k \in DOMAIN data.exif : JsonOk(data.exif[k])

\* the lines of the readable report, each a tuple of its fixed text and values
ReportLines(data) ==
    LET f == data.file
        sm == data.summary
        gps == Get(data, "gps")
        head == << <<"# Image Metadata Report: ", f.name>>, <<"">>, <<"## File">>,
                   <<"- Path: ", f.path>>, <<"- Format: ", f.format>>,
                   <<"- Mode: ", f.mode>>, <<"- Size: ", f.size.width, "x", f.size.height>>,
                   <<"">>, <<"## Summary">>,
                   <<"- Camera: ", sm.camera_make, " ", sm.camera_model>>,
                   <<"- Date/Time: ", sm.datetime_original>>,
                   <<"- GPS present: ", sm.has_gps>> >>
        gpsLine == IF DOMAIN gps # {}
                   THEN << <<"- GPS (decimal): ", Get(gps, "latitude_decimal"), ", ",
                             Get(gps, "longitude_decimal")>> >>
                   ELSE <<>>
        ocrLines == IF "ocr" \in DOMAIN data
                    THEN << <<"">>, <<"## OCR">>, <<"- Language: ", data.ocr.language>>,
                            <<"- Note: ", data.ocr.note>> >>
                         \o (IF Truthy(data.ocr.text)
                             THEN << <<"">>, <<"### Extracted Text">>, <<data.ocr.text.s>> >>
                             ELSE <<>>)
                    ELSE <<>>
    IN  head \o gpsLine \o ocrLines

-----------------------------------------------------------------------------
(* main() and analyze_image(), step by step *)

\* MainCheckPath without sys.exit(1): the error is printed and main goes on
MainCheckPathNoExit ==
    /\ pc = "main"
    /\ stderr' = IF disk.kind = "missing"
                 THEN Append(stderr, "Error: file not found: " \o args.image)
                 ELSE stderr
    /\ pc' = "open"
    /\ UNCHANGED <<pytesseract, detect, args, disk, handle, info, pending, ocrEnv,
                   exitCode, stdout, outFile>>
    /\ UNCHANGED dmsVars

\* main: parse, then the existence check
MainCheckPath ==
    /\ pc = "main"
    /\ IF disk.kind = "missing"
       THEN /\ stderr' = Append(stderr, "Error: file not found: " \o args.image)
            /\ exitCode' = 1
            /\ pc' = "exited"
       ELSE /\ pc' = "open"
            /\ UNCHANGED <<stderr, exitCode>>
    /\ UNCHANGED <<pytesseract, detect, args, disk, handle, info, pending, ocrEnv,
                   stdout, outFile>>
    /\ UNCHANGED dmsVars

\* analyze_image: with Image.open(path) as img, and the "file" entry
ImageOpen ==
    /\ pc = "open"
    /\ IF disk.kind = "image"
       THEN /\ handle' = "open"
            /\ info' = [file |-> [name |-> args.image, path |-> "/cwd/" \o args.image,
                                  format |-> "JPEG", mode |-> "RGB",
                                  size |-> [width |-> 4, height |-> 3]]]
            /\ pc' = "extract"
            /\ UNCHANGED pending
       ELSE /\ pending' = Raised("UnidentifiedImageError")
            /\ pc' = "crash"
            /\ UNCHANGED <<handle, info>>
    /\ UNCHANGED <<pytesseract, detect, args, disk, ocrEnv, exitCode, stderr, stdout, outFile>>
    /\ UNCHANGED dmsVars

\* analyze_image: extract_exif, info.update, the summary
ExtractAndSummarize ==
    /\ pc = "extract"
    /\ \E exif_data \in {extract_exif(disk.exif_raw)} :
           IF IsRaised(exif_data)
           THEN /\ pending' = exif_data
                /\ pc' = "exit_with"
                /\ UNCHANGED info
           ELSE /\ info' = ("summary" :> Summary(exif_data)) @@ exif_data @@ info
                /\ pc' = IF args.ocr THEN "ocr" ELSE "exit_with"
                /\ UNCHANGED pending
    /\ UNCHANGED <<pytesseract, detect, args, disk, handle, ocrEnv, exitCode, stderr,
                   stdout, outFile>>
    /\ UNCHANGED dmsVars

NoOcr == [transpose |-> "-", ocr |-> "-", msg |-> "", raw |-> "", det |-> "-"]
ErrMsgs == {"", "tesseract is not installed or it's not in your PATH"}

\* what the OCR engine and the detector may do in one call
OcrEnvs ==
    IF pytesseract = None THEN {NoOcr}
    ELSE {[NoOcr EXCEPT !.transpose = "error", !.msg = m] : m \in ErrMsgs}
         \cup {[NoOcr EXCEPT !.transpose = "ok", !.ocr = "error", !.msg = m] : m \in ErrMsgs}
         \cup {[NoOcr EXCEPT !.transpose = "ok", !.ocr = "interrupt"]}
         \cup {[NoOcr EXCEPT !.transpose = "ok", !.ocr = "ok", !.raw = r] : r \in {"", " \n"}}
         \cup {[NoOcr EXCEPT !.transpose = "ok", !.ocr = "ok", !.raw = r, !.det = d] :
                  r \in {"hello\n", "123"},
                  d \in IF detect = None THEN {"-"} ELSE {"en", "error"}}

\* analyze_image: if do_ocr: info["ocr"] = try_ocr(img)
RunOcr ==
    /\ pc = "ocr"
    /\ \E env \in OcrEnvs :
          \E r \in {try_ocr(env)} :
              /\ ocrEnv' = env
              /\ IF IsRaised(r)
                 THEN /\ pending' = r
                      /\ UNCHANGED info
                 ELSE /\ info' = ("ocr" :> r) @@ info
                      /\ UNCHANGED pending
    /\ pc' = "exit_with"
    /\ UNCHANGED <<pytesseract, detect, args, disk, handle, exitCode, stderr, stdout, outFile>>
    /\ UNCHANGED dmsVars

\* WithExit closing the image on the normal return only
WithExitOnReturnOnly ==
    /\ pc = "exit_with"
    /\ handle' = IF pending = None THEN "closed" ELSE handle
    /\ pc' = IF pending = None THEN "write" ELSE "crash"
    /\ UNCHANGED <<pytesseract, detect, args, disk, info, pending, ocrEnv, exitCode,
                   stderr, stdout, outFile>>
    /\ UNCHANGED dmsVars

\* leaving the with block, by return or by a propagating exception, closes img
WithExit ==
    /\ pc = "exit_with"
    /\ handle' = "closed"
    /\ pc' = IF pending = None THEN "write" ELSE "crash"
    /\ UNCHANGED <<pytesseract, detect, args, disk, info, pending, ocrEnv, exitCode,
                   stderr, stdout, outFile>>
    /\ UNCHANGED dmsVars

\* main: write_report(data, out_path=args.out), then the normal end of main
WriteReport ==
    /\ pc = "write"
    /\ IF ~JsonSerializable(info)
       THEN /\ pending' = Raised("TypeError")
            /\ pc' = "crash"
            /\ UNCHANGED <<stdout, outFile, exitCode>>
       ELSE /\ stdout' = TRUE
            /\ IF args.out = ""
               THEN /\ pc' = "exited"
                    /\ exitCode' = 0
                    /\ UNCHANGED <<outFile, pending>>
               ELSE \E opened \in BOOLEAN :
                      IF opened
                      THEN /\ outFile' = [written |-> TRUE, lines |-> ReportLines(info)]
                           /\ pc' = "exited"
                           /\ exitCode' = 0
                           /\ UNCHANGED pending
                      ELSE /\ pending' = Raised("OSError")
                           /\ pc' = "crash"
                           /\ UNCHANGED <<outFile, exitCode>>
    /\ UNCHANGED <<pytesseract, detect, args, disk, handle, info, ocrEnv, stderr>>
    /\ UNCHANGED dmsVars

\* an exception nothing catches leaves main: the interpreter prints the
\* traceback and exits with status 1
Crash ==
    /\ pc = "crash"
    /\ stderr' = Append(stderr, "Traceback (most recent call last): " \o pending.exc)
    /\ exitCode' = 1
    /\ pc' = "exited"
    /\ UNCHANGED <<pytesseract, detect, args, disk, handle, info, pending, ocrEnv,
                   stdout, outFile>>
    /\ UNCHANGED dmsVars

-----------------------------------------------------------------------------
(* Tag mappings an image may carry *)

\* the mappings with no entry for k, or one entry for k drawn from S
Opt(k, S) == {EmptyDict} \cup {k :> v : v \in S}

LatRaws == {PyTuple(<<PyInt(48), PyInt(51), PyInt(29)>>),
            PyTuple(<<PyInt(48), PyInt(51)>>),
            PyTuple(<<Rational(48, 1), Rational(51, 1), Rational(29, 0)>>),
            PyInt(5)}
LonRaws == {PyTuple(<<PyInt(2), PyInt(17), PyInt(40)>>),
            PyTuple(<<>>),
            Rational(3, 1)}
LatRefs == {PyStr("N"), PyStr("S"), PyStr("")}
LonRefs == {PyStr("E"), PyStr("W")}

GpsDicts ==
    {a @@ b @@ c @@ d : a \in Opt(1, LatRefs), b \in Opt(2, LatRaws),
                        c \in Opt(3, LonRefs), d \in Opt(4, LonRaws)}

OtherTags ==
    {EmptyDict,
     271 :> PyStr("Canon"),
     306 :> PyStr("2025:01:02 03:04:05") @@ 59932 :> PyInt(1),
     271 :> PyStr("Canon") @@ 272 :> PyStr("EOS") @@ 306 :> PyStr("2025:01:02 03:04:05")
       @@ 36867 :> PyStr("2024:12:31 23:59:59")}

ExifMaps ==
    {g @@ o : g \in Opt(34853, {PyInt(1234)} \cup {PyDict(d) : d \in GpsDicts}),
              o \in OtherTags}

Disks ==
    {[kind |-> "missing", exif_raw |-> EmptyDict], [kind |-> "text", exif_raw |-> EmptyDict]}
    \cup {[kind |-> "image", exif_raw |-> e] : e \in ExifMaps}

Init ==
    /\ pytesseract \in {None, Module}
    /\ detect \in {None, Module}
    /\ pc = "main"
    /\ args \in [image : {"sample.jpg"}, ocr : BOOLEAN, out : {"output.txt", ""}]
    /\ disk \in Disks
    /\ handle = "unopened"
    /\ info = EmptyDict
    /\ pending = None
    /\ ocrEnv = None
    /\ exitCode = -1
    /\ stderr = <<>>
    /\ stdout = FALSE
    /\ outFile = [written |-> FALSE, lines |-> <<>>]
    /\ dpc = "idle"
    /\ dms = None
    /\ ref = None
    /\ dec = None

Next ==
    \/ MainCheckPath
    \/ ImageOpen
    \/ ExtractAndSummarize
    \/ RunOcr
    \/ WithExit
    \/ WriteReport
    \/ Crash

Spec == Init /\ [][Next]_vars

-----------------------------------------------------------------------------
(* Properties of the pipeline *)

IsNumber(v) == v.t = "float"
NonEmptyString(v) == v.t = "str" /\ v.s # ""

\* C2: in every result of analyze_image, summary.has_gps is true exactly
\* when gps.latitude_decimal and gps.longitude_decimal are both present and
\* not None.
C2_HasGpsIffBothDecimals ==
    "summary" \in DOMAIN info =>
        (info.summary.has_gps <=>
            /\ "latitude_decimal" \in DOMAIN info.gps
            /\ "longitude_decimal" \in DOMAIN info.gps
            /\ info.gps.latitude_decimal # None
            /\ info.gps.longitude_decimal # None)

C2_Witness ==
    /\ pc = "exited"
    /\ exitCode = 0
    /\ info.summary.has_gps
    /\ IsNumber(info.gps.latitude_decimal)
    /\ IsNumber(info.gps.longitude_decimal)

\* C3: with an image path that does not exist, main ends with exit code 1
\* after one error line on standard error; the image is never opened,
\* nothing is printed and nothing is written to the --out path.
C3_MissingPathExitsOne ==
    disk.kind = "missing" =>
        /\ \/ pc = "main" /\ exitCode = -1 /\ stderr = <<>>
           \/ /\ pc = "exited"
              /\ exitCode = 1
              /\ stderr = <<"Error: file not found: " \o args.image>>
        /\ handle = "unopened"
        /\ ~stdout
        /\ ~outFile.written

C3_Witness ==
    /\ disk.kind = "missing"
    /\ pc = "exited"
    /\ exitCode = 1
    /\ args.out = "output.txt"
    /\ ~outFile.written

\* C4: once the image has been opened, every way out of analyze_image
\* (return, an error from extract_exif, an error from try_ocr) leaves the
\* handle closed; no run ends with it open.
C4_HandleClosedOnEveryExit ==
    pc \in {"write", "crash", "exited"} =>
        /\ handle # "open"
        /\ disk.kind = "image" => handle = "closed"

C4_Witness ==
    /\ pc = "exited"
    /\ handle = "closed"
    /\ pending = Raised("KeyboardInterrupt")

\* C5: when OCR is requested and the OCR module is missing, or the engine
\* raises during orientation correction or text extraction, try_ocr returns
\* normally with text and language None and a non-empty note.
C5_OcrFailureBecomesNote ==
    (ocrEnv # None /\ (pytesseract = None \/ ocrEnv.transpose = "error"
                         \/ ocrEnv.ocr = "error"))
    => /\ "ocr" \in DOMAIN info
       /\ info.ocr.text = None
       /\ info.ocr.language = None
       /\ NonEmptyString(info.ocr.note)

C5_Witness ==
    /\ ocrEnv # None
    /\ pytesseract # None
    /\ ocrEnv.ocr = "error"
    /\ ocrEnv.msg = ""
    /\ info.ocr.note = PyStr("OCR failed: ")

\* C6: every run of main whose input path exists ends with exit code 0,
\* whatever happens in decoding, extraction, OCR or report writing; exit
\* code 1 only when the path does not exist.
C6_ExistingPathExitsZero ==
    pc = "exited" => (exitCode = 1 <=> disk.kind = "missing")
                     /\ (exitCode = 0 <=> disk.kind # "missing")

\* the GPSInfo mapping of the image, by tag name, when it is a mapping
GpsInput == Named(GPS_TAGS, disk.exif_raw[34853].m)

\* a coordinate's own data is complete: raw value and reference both present
\* and non-empty, the raw value a sequence of exactly 3 elements
Complete(rawName, refName) ==
    /\ Truthy(Get(GpsInput, rawName))
    /\ Truthy(Get(GpsInput, refName))
    /\ Get(GpsInput, rawName).t = "tuple"
    /\ Len(Get(GpsInput, rawName).items) = 3

\* extract_exif returned a gps record built from a GPSInfo mapping
GpsRecordReturned == "gps" \in DOMAIN info /\ DOMAIN info.gps # {}

\* C7 as stated: extract_exif never returns a gps record in which one of
\* latitude_decimal / longitude_decimal is a number while the GPS data of
\* the other coordinate is missing or incomplete.
C7_NoDecimalWhenOtherPartial ==
    GpsRecordReturned =>
        /\ IsNumber(info.gps.latitude_decimal)
             => Complete("GPSLongitude", "GPSLongitudeRef")
        /\ IsNumber(info.gps.longitude_decimal)
             => Complete("GPSLatitude", "GPSLatitudeRef")

\* C7 amended: each coordinate is decided on its own data.  In every gps
\* record extract_exif returns, latitude_decimal is a number exactly when
\* GPSLatitude and GPSLatitudeRef are both present and non-empty and
\* GPSLatitude has exactly 3 elements, and None otherwise; likewise for
\* longitude_decimal; the other coordinate's data plays no part.
C7_DecimalIffOwnDataComplete ==
    GpsRecordReturned =>
        /\ IF Complete("GPSLatitude", "GPSLatitudeRef")
           THEN IsNumber(info.gps.latitude_decimal)
           ELSE info.gps.latitude_decimal = None
        /\ IF Complete("GPSLongitude", "GPSLongitudeRef")
           THEN IsNumber(info.gps.longitude_decimal)
           ELSE info.gps.longitude_decimal = None

C7_Witness ==
    /\ GpsRecordReturned
    /\ IsNumber(info.gps.latitude_decimal)
    /\ info.gps.longitude_decimal = None
    /\ "GPSLongitude" \in DOMAIN GpsInput
    /\ "GPSLongitudeRef" \notin DOMAIN GpsInput
    /\ ~info.summary.has_gps

\* C8: for every tag mapping, a GPSInfo entry that is no mapping and
\* malformed latitude / longitude values included, extract_exif returns
\* without raising, and a failed GPS conversion suppresses neither the exif
\* mapping nor the summary nor the OCR result of the run.
C8_ExtractNeverRaises ==
    (disk.kind = "image" /\ pc \in {"ocr", "exit_with", "write", "crash", "exited"})
    => /\ {"exif", "gps", "summary"} \subseteq DOMAIN info
       /\ (args.ocr /\ pc # "ocr" /\ pending # Raised("KeyboardInterrupt"))
            => "ocr" \in DOMAIN info

\* C10: when text extraction succeeds with non-empty text and language
\* detection fails (langdetect missing, or detect raising), try_ocr returns
\* the text with language None and a non-empty note.
C10_DetectFailureBecomesNote ==
    (ocrEnv # None /\ pytesseract # None /\ ocrEnv.ocr = "ok"
       /\ Strip(ocrEnv.raw) # "" /\ (detect = None \/ ocrEnv.det = "error"))
    => /\ "ocr" \in DOMAIN info
       /\ info.ocr.text = PyStr(Strip(ocrEnv.raw))
       /\ info.ocr.language = None
       /\ NonEmptyString(info.ocr.note)

====
